---- MODULE Spec2Model ----
(***************************************************************************)
(* A* route planner over an OpenStreetMap road graph                       *)
(* (CppND-Route-Planning-Project): RouteModel, RoutePlanner and main.      *)
(*                                                                         *)
(* Points, ways and roads are indexed from 0 as in the C++ vectors.  Real  *)
(* numbers are fixed point: a length d is the integer nearest to d*Scale,  *)
(* the way the C++ rounds the square root to a float.                      *)
(***************************************************************************)
EXTENDS Integers, Sequences, FiniteSets, TLC

(* ------------------------------ bounds -------------------------------- *)

NumPoints == 3
MaxCoord == 1
NumWays == 2
MaxWayLen == 3
Scale == 100
MapMetricScale == 2

(* ------------------------- program constants -------------------------- *)

Residential == 3
Footway == 9
NULL == -1

RoadTypes == {Residential, Footway}

Points == 0 .. (NumPoints - 1)
WayIdx == 0 .. (NumWays - 1)
Coord == 0 .. MaxCoord

VARIABLES
    m_Nodes,        \* Model::m_Nodes: point index -> [x, y]
    m_Ways,         \* Model::m_Ways: way index -> sequence of point indices
    m_Roads,        \* Model::m_Roads: road index -> [way, type]
    m_MetricScale,  \* Model::m_MetricScale
    node_to_road,   \* RouteModel::node_to_road: a map, its keys are its DOMAIN
    parent,         \* RouteModel::Node::parent, NULL or a point index
    h_value,        \* RouteModel::Node::h_value
    g_value,        \* RouteModel::Node::g_value
    visited,        \* RouteModel::Node::visited
    neighbors,      \* RouteModel::Node::neighbors
    path,           \* RouteModel::path, the points of the route found
    open_list,      \* RoutePlanner::open_list
    start_node,     \* RoutePlanner::start_node
    end_node,       \* RoutePlanner::end_node
    distance,       \* RoutePlanner::distance
    current_node,   \* AStarSearch's local current_node
    query,          \* the RoutePlanner constructor's coordinate arguments
    pc              \* where main and AStarSearch are

graph == <<m_Nodes, m_Ways, m_Roads>>
nodeState == <<parent, h_value, g_value, visited, neighbors>>
planner == <<open_list, start_node, end_node, distance, current_node, query>>
vars == <<graph, m_MetricScale, node_to_road, nodeState, path, planner, pc>>

(* --------------------------- arithmetic ------------------------------- *)

\* The largest squared distance between two grid points.
MaxSquare == 2 * MaxCoord * MaxCoord

\* std::sqrt rounded to the nearest representable value (unit 1/Scale).
SqrtTable ==
    [n \in 0 .. MaxSquare |->
        CHOOSE r \in 0 .. ((2 * MaxCoord + 1) * Scale) :
            /\ r = 0 \/ (2 * r - 1) * (2 * r - 1) <= 4 * n * Scale * Scale
            /\ 4 * n * Scale * Scale < (2 * r + 1) * (2 * r + 1)]

\* std::numeric_limits<float>::max(): above every distance and every f.
FloatMax == 1000 * Scale * (MaxCoord + 1)

\* Mutant of distanceXY: the x difference is squared twice, y is not used.
distanceXYNoY(a, b) ==
    SqrtTable[(a.x - b.x) * (a.x - b.x) + (a.x - b.x) * (a.x - b.x)]

\* RouteModel::Node::distance on two coordinate records.
distanceXY(a, b) ==
    SqrtTable[(a.x - b.x) * (a.x - b.x) + (a.y - b.y) * (a.y - b.y)]

\* this->distance(other) for two points of the node table.
Dist(p, q) == distanceXY(m_Nodes[p], m_Nodes[q])

(* ------------------------ the loaded map (Model) ----------------------- *)

RoadIdx == DOMAIN m_Roads

\* Mutant of Routable: the footway test is left out.
RoutableAnyType(r) == m_Roads[r].type \in RoadTypes

\* road.type != Model::Road::Type::Footway
Routable(r) == m_Roads[r].type # Footway

\* Ways()[road.way].nodes
WayNodes(r) == m_Ways[m_Roads[r].way]

\* The elements of a sequence.
Range(s) == {s[i] : i \in DOMAIN s}

(* ------------------- RouteModel::CreateNodeToRoadHashmap --------------- *)

\* The inner loop: every node index of the road's way gets the road appended,
\* after an empty vector is stored for an index the map does not hold yet.
RECURSIVE PushRoad(_, _, _, _)
PushRoad(map, r, nodes, i) ==
    IF i > Len(nodes) THEN map
    ELSE LET node_idx == nodes[i]
             held == IF node_idx \in DOMAIN map THEN map
                     ELSE map @@ (node_idx :> <<>>)
         IN  PushRoad([held EXCEPT ![node_idx] = Append(@, r)], r, nodes, i + 1)

\* Mutant of IndexRoad: footways are indexed like any road.
IndexRoadAnyType(map, r) == PushRoad(map, r, m_Ways[m_Roads[r].way], 1)

\* if (road.type != Footway) for (node_idx : Ways()[road.way].nodes) ...
IndexRoad(map, r) ==
    IF Routable(r) THEN PushRoad(map, r, WayNodes(r), 1) ELSE map

\* The outer loop over Roads(), in vector order.
RECURSIVE IndexRoads(_, _)
IndexRoads(map, r) ==
    IF r \notin RoadIdx THEN map
    ELSE IndexRoads(IndexRoad(map, r), r + 1)

EmptyMap == [k \in {} |-> <<>>]

CreateNodeToRoadHashmap == IndexRoads(EmptyMap, 0)

(* ---------------------- RouteModel::FindClosestNode -------------------- *)

\* The inner loop over one way: acc is [min_dist, closest_idx].
RECURSIVE ScanWay(_, _, _, _)
ScanWay(acc, input, nodes, i) ==
    IF i > Len(nodes) THEN acc
    ELSE LET dist == distanceXY(input, m_Nodes[nodes[i]])
         IN  ScanWay(IF dist < acc.min_dist
                     THEN [min_dist |-> dist, closest_idx |-> nodes[i]]
                     ELSE acc,
                     input, nodes, i + 1)

\* Mutant of ScanRoad: the points of footways are scanned too.
ScanRoadAnyType(acc, input, r) == ScanWay(acc, input, m_Ways[m_Roads[r].way], 1)

ScanRoad(acc, input, r) ==
    IF Routable(r) THEN ScanWay(acc, input, WayNodes(r), 1) ELSE acc

RECURSIVE ScanRoads(_, _, _)
ScanRoads(acc, input, r) ==
    IF r \notin RoadIdx THEN acc
    ELSE ScanRoads(ScanRoad(acc, input, r), input, r + 1)

\* The index FindClosestNode returns; NULL stands for closest_idx never
\* assigned (no point on any non-footway road).
FindClosestNode(x, y) ==
    ScanRoads([min_dist |-> FloatMax, closest_idx |-> NULL],
              [x |-> x, y |-> y], 0).closest_idx

(* --------------------- RouteModel::Node::FindNeighbor ------------------ *)

\* Mutant of Closer: the test distance != 0 is left out.
CloserAnyDistance(self, closest_node, node_index) ==
    IF ~visited[node_index]
    THEN IF closest_node = NULL \/ Dist(self, node_index) < Dist(self, closest_node)
         THEN node_index
         ELSE closest_node
    ELSE closest_node

\* Mutant of Closer: the node itself is told by its index, not by distance 0.
CloserByIndex(self, closest_node, node_index) ==
    IF node_index # self /\ ~visited[node_index]
    THEN IF closest_node = NULL \/ Dist(self, node_index) < Dist(self, closest_node)
         THEN node_index
         ELSE closest_node
    ELSE closest_node

\* Mutant of Closer: a node as near as closest_node replaces it (<= for <).
CloserLastOnTies(self, closest_node, node_index) ==
    IF Dist(self, node_index) # 0 /\ ~visited[node_index]
    THEN IF closest_node = NULL \/ Dist(self, node_index) <= Dist(self, closest_node)
         THEN node_index
         ELSE closest_node
    ELSE closest_node

\* One turn of the loop: closest_node after looking at node_index.
Closer(self, closest_node, node_index) ==
    IF Dist(self, node_index) # 0 /\ ~visited[node_index]
    THEN IF closest_node = NULL \/ Dist(self, node_index) < Dist(self, closest_node)
         THEN node_index
         ELSE closest_node
    ELSE closest_node

RECURSIVE FindNeighborFrom(_, _, _, _)
FindNeighborFrom(self, closest_node, node_indices, i) ==
    IF i > Len(node_indices) THEN closest_node
    ELSE FindNeighborFrom(self, Closer(self, closest_node, node_indices[i]),
                          node_indices, i + 1)

\* Mutant of FindNeighbor: closest_node starts as the node itself, not null.
FindNeighborInitSelf(self, node_indices) == FindNeighborFrom(self, self, node_indices, 1)

FindNeighbor(self, node_indices) == FindNeighborFrom(self, NULL, node_indices, 1)

(* -------------------- RouteModel::Node::FindNeighbors ------------------ *)

\* Mutant of RoadsAt: every road of the map, whether the node is on it or not.
RoadsAtAll(self) == [i \in 1 .. Cardinality(DOMAIN m_Roads) |-> i - 1]

\* node_to_road[this->index]: operator[] stores an empty vector for a new key.
RoadsAt(self) == IF self \in DOMAIN node_to_road THEN node_to_road[self] ELSE <<>>

NodeToRoadAfterLookup(self) ==
    IF self \in DOMAIN node_to_road THEN node_to_road
    ELSE node_to_road @@ (self :> <<>>)

\* Mutant of CollectNeighbors: the loop is left after the first road.
CollectNeighborsFirstRoad(self, list, roads, i) ==
    IF i > Len(roads) THEN list
    ELSE LET new_neighbor == FindNeighbor(self, WayNodes(roads[i]))
         IN  IF new_neighbor # NULL THEN Append(list, new_neighbor) ELSE list

\* Mutant of CollectNeighbors: new_neighbor is not reset between roads, so a
\* road without a neighbor adds the neighbor of the road before it again.
RECURSIVE CollectNeighborsKeepsLast(_, _, _, _)
CollectNeighborsKeepsLast(self, list, roads, i) ==
    IF i > Len(roads) THEN list
    ELSE LET new_neighbor == FindNeighbor(self, WayNodes(roads[i]))
         IN  CollectNeighborsKeepsLast(self,
                              IF new_neighbor # NULL THEN Append(list, new_neighbor)
                              ELSE IF list # <<>> THEN Append(list, list[Len(list)])
                              ELSE list,
                              roads, i + 1)

\* The neighbors vector after the loop has handled roads[i..]: one
\* emplace_back for every road whose FindNeighbor is not null.
RECURSIVE CollectNeighbors(_, _, _, _)
CollectNeighbors(self, list, roads, i) ==
    IF i > Len(roads) THEN list
    ELSE LET new_neighbor == FindNeighbor(self, WayNodes(roads[i]))
         IN  CollectNeighbors(self,
                              IF new_neighbor # NULL THEN Append(list, new_neighbor)
                              ELSE list,
                              roads, i + 1)

\* this->neighbors after FindNeighbors(): it is appended to, never cleared.
FindNeighbors(self) == CollectNeighbors(self, neighbors[self], RoadsAt(self), 1)

(* ----------------------- RoutePlanner::AddNeighbors -------------------- *)

\* RoutePlanner::CalculateHValue
CalculateHValue(node) == Dist(node, end_node)

\* Mutant of VisitNeighbor: the neighbor is made its own parent.
VisitNeighborParentSelf(st, current, neighbor) ==
    IF ~st.visited[neighbor]
    THEN [parent  |-> [st.parent EXCEPT ![neighbor] = neighbor],
          g       |-> [st.g EXCEPT ![neighbor] = st.g[current] + Dist(current, neighbor)],
          h       |-> [st.h EXCEPT ![neighbor] = CalculateHValue(neighbor)],
          open    |-> Append(st.open, neighbor),
          visited |-> [st.visited EXCEPT ![neighbor] = TRUE]]
    ELSE st

\* Mutant of VisitNeighbor: the neighbor is not marked visited.
VisitNeighborNoMark(st, current, neighbor) ==
    IF ~st.visited[neighbor]
    THEN [parent  |-> [st.parent EXCEPT ![neighbor] = current],
          g       |-> [st.g EXCEPT ![neighbor] = st.g[current] + Dist(current, neighbor)],
          h       |-> [st.h EXCEPT ![neighbor] = CalculateHValue(neighbor)],
          open    |-> Append(st.open, neighbor),
          visited |-> st.visited]
    ELSE st

\* Mutant of VisitNeighbor: g is the last hop alone, without current's g.
VisitNeighborGFromZero(st, current, neighbor) ==
    IF ~st.visited[neighbor]
    THEN [parent  |-> [st.parent EXCEPT ![neighbor] = current],
          g       |-> [st.g EXCEPT ![neighbor] = Dist(current, neighbor)],
          h       |-> [st.h EXCEPT ![neighbor] = CalculateHValue(neighbor)],
          open    |-> Append(st.open, neighbor),
          visited |-> [st.visited EXCEPT ![neighbor] = TRUE]]
    ELSE st

\* Mutant of VisitNeighbor: the test of neighbor->visited is left out.
VisitNeighborUnchecked(st, current, neighbor) ==
    [parent  |-> [st.parent EXCEPT ![neighbor] = current],
     g       |-> [st.g EXCEPT ![neighbor] = st.g[current] + Dist(current, neighbor)],
     h       |-> [st.h EXCEPT ![neighbor] = CalculateHValue(neighbor)],
     open    |-> Append(st.open, neighbor),
     visited |-> [st.visited EXCEPT ![neighbor] = TRUE]]

\* Mutant of VisitNeighbor: parent is written to the wrong node of the pair.
VisitNeighborSwapped(st, current, neighbor) ==
    IF ~st.visited[neighbor]
    THEN [parent  |-> [st.parent EXCEPT ![current] = neighbor],
          g       |-> [st.g EXCEPT ![neighbor] = st.g[current] + Dist(current, neighbor)],
          h       |-> [st.h EXCEPT ![neighbor] = CalculateHValue(neighbor)],
          open    |-> Append(st.open, neighbor),
          visited |-> [st.visited EXCEPT ![neighbor] = TRUE]]
    ELSE st

\* The body of the loop for one neighbor; st is the record of the fields
\* the loop writes: parent, g, h, visited and the open list.
VisitNeighbor(st, current, neighbor) ==
    IF ~st.visited[neighbor]
    THEN [parent  |-> [st.parent EXCEPT ![neighbor] = current],
          g       |-> [st.g EXCEPT ![neighbor] = st.g[current] + Dist(current, neighbor)],
          h       |-> [st.h EXCEPT ![neighbor] = CalculateHValue(neighbor)],
          open    |-> Append(st.open, neighbor),
          visited |-> [st.visited EXCEPT ![neighbor] = TRUE]]
    ELSE st

RECURSIVE VisitNeighbors(_, _, _, _)
VisitNeighbors(st, current, list, i) ==
    IF i > Len(list) THEN st
    ELSE VisitNeighbors(VisitNeighbor(st, current, list[i]), current, list, i + 1)

\* The fields after AddNeighbors(current), given the neighbor list that
\* FindNeighbors left in current->neighbors.
AddNeighbors(current, list) ==
    VisitNeighbors([parent |-> parent, g |-> g_value, h |-> h_value,
                    open |-> open_list, visited |-> visited],
                   current, list, 1)

(* ------------------------- RoutePlanner::NextNode ---------------------- *)

\* g_value + h_value
F(n) == g_value[n] + h_value[n]

\* Mutant of SortBefore: the comparison is turned round (< for >).
SortBeforeAscending(a, b) == F(a) < F(b)

\* The lambda passed to std::sort: a goes before b.
SortBefore(a, b) == F(a) > F(b)

\* The orders std::sort may leave a vector in: a permutation of it in which
\* no element is followed by one that must go before it.  The order of
\* elements of equal f is unspecified.
SortResults(list) ==
    LET n == Len(list)
        perms == {p \in [1 .. n -> 1 .. n] : \A i, j \in 1 .. n : i # j => p[i] # p[j]}
    IN  {[i \in 1 .. n |-> list[p[i]]] : p \in
            {q \in perms : \A i, j \in 1 .. n :
                i < j => ~SortBefore(list[q[j]], list[q[i]])}}

\* Mutant of PopBack: the node taken stays on the open list.
PopBackKeeps(list) == list

\* open_list.back() and the vector after pop_back().
Back(list) == list[Len(list)]
PopBack(list) == SubSeq(list, 1, Len(list) - 1)

(* -------------------- RoutePlanner::ConstructFinalPath ----------------- *)

\* Mutant of WalkParents: the loop stops at the node without a parent
\* instead of after it.
RECURSIVE WalkParentsUntilRoot(_, _, _)
WalkParentsUntilRoot(acc, node, fuel) ==
    IF node = NULL \/ fuel = 0 THEN acc
    ELSE IF parent[node] = NULL THEN acc
    ELSE WalkParentsUntilRoot(
            [path_found |-> Append(acc.path_found, node),
             distance   |-> acc.distance + Dist(node, parent[node])],
            parent[node], fuel - 1)

\* Mutant of WalkParents: the hop to the parent is never added to distance.
RECURSIVE WalkParentsNoSum(_, _, _)
WalkParentsNoSum(acc, node, fuel) ==
    IF node = NULL \/ fuel = 0 THEN acc
    ELSE WalkParentsNoSum(
            [path_found |-> Append(acc.path_found, node),
             distance   |-> acc.distance],
            parent[node], fuel - 1)

\* The while loop from current_node: acc is [path_found, distance].  The walk
\* is cut after NumPoints + 1 nodes, which a parent chain without a cycle
\* never needs.
RECURSIVE WalkParents(_, _, _)
WalkParents(acc, node, fuel) ==
    IF node = NULL \/ fuel = 0 THEN acc
    ELSE WalkParents(
            [path_found |-> Append(acc.path_found, node),
             distance   |-> IF parent[node] # NULL
                            THEN acc.distance + Dist(node, parent[node])
                            ELSE acc.distance],
            parent[node], fuel - 1)

\* Mutant of Reverse: the sequence is left in the order it was collected.
ReverseNot(s) == s

\* std::reverse
Reverse(s) == [i \in 1 .. Len(s) |-> s[Len(s) + 1 - i]]

\* Mutant of ConstructFinalPath: path_found is returned as it was collected,
\* from the goal back to the start.
ConstructFinalPathUnreversed(node) ==
    LET walked == WalkParents([path_found |-> <<>>, distance |-> 0], node, NumPoints + 1)
    IN  [path_found |-> walked.path_found,
         distance   |-> walked.distance * m_MetricScale]

\* [path_found, distance] as ConstructFinalPath leaves them.
ConstructFinalPath(node) ==
    LET walked == WalkParents([path_found |-> <<>>, distance |-> 0], node, NumPoints + 1)
    IN  [path_found |-> Reverse(walked.path_found),
         distance   |-> walked.distance * m_MetricScale]

(* ------------------------------- Init ---------------------------------- *)

\* Lexicographic order on coordinate records.
CoordLeq(a, b) == a.x < b.x \/ (a.x = b.x /\ a.y <= b.y)

\* The point tables: every point on the grid, two points may share a
\* coordinate.  Renaming the points of a map renames the result of every
\* operation, so only the tables listed in coordinate order are taken.
PointTables ==
    {t \in [Points -> [x : Coord, y : Coord]] :
        \A p, q \in Points : p < q => CoordLeq(t[p], t[q])}

\* The ways: sequences of point indices, the empty one and the ones that
\* come back to a point included; no point is listed twice in a row.
WaySeqs ==
    {w \in UNION {[1 .. n -> Points] : n \in 0 .. MaxWayLen} :
        \A i \in 1 .. (Len(w) - 1) : w[i] # w[i + 1]}

\* The road lists: way k carries one highway tag and so one road, the Model
\* constructor leaves m_Roads sorted by type, and the map has a road that is
\* not a footway.
RoadLists ==
    {r \in [WayIdx -> [way : WayIdx, type : RoadTypes]] :
        /\ \A k \in WayIdx : r[k].way = k
        /\ \A j, k \in WayIdx : j < k => r[j].type <= r[k].type
        /\ r[0].type # Footway}

NoQuery == <<>>

Init ==
    /\ m_Nodes \in PointTables
    /\ m_Ways \in [WayIdx -> WaySeqs]
    /\ m_Roads \in RoadLists
    /\ m_MetricScale = MapMetricScale
    /\ node_to_road = EmptyMap
    /\ parent = [p \in Points |-> NULL]
    /\ h_value = [p \in Points |-> FloatMax]
    /\ g_value = [p \in Points |-> 0]
    /\ visited = [p \in Points |-> FALSE]
    /\ neighbors = [p \in Points |-> <<>>]
    /\ path = <<>>
    /\ open_list = <<>>
    /\ start_node = NULL
    /\ end_node = NULL
    /\ distance = 0
    /\ current_node = NULL
    /\ query = NoQuery
    /\ pc = "main"

(* ------------------------------ actions -------------------------------- *)

\* RouteModel::RouteModel, after Model(xml): the search nodes are made and
\* the node-to-road map is built.
RouteModelCtor ==
    /\ pc = "main"
    /\ node_to_road' = CreateNodeToRoadHashmap
    /\ pc' = "built"
    /\ UNCHANGED <<graph, m_MetricScale, nodeState, path, planner>>

\* The coordinates main reads, in percent of the map.
Percents == {100 * c : c \in Coord}

\* start_x *= 0.01f
FromPercent(v) == v \div 100

\* RoutePlanner::RoutePlanner: both ends are located.  With no point on a
\* non-footway road closest_idx is read uninitialized: any node, or a fault.
RoutePlannerCtor ==
    /\ pc = "built"
    /\ \E sx, sy, ex, ey \in Percents :
        LET s == FindClosestNode(FromPercent(sx), FromPercent(sy))
            e == FindClosestNode(FromPercent(ex), FromPercent(ey))
        IN  /\ query' = <<sx, sy, ex, ey>>
            /\ \/ /\ s # NULL
                  /\ start_node' = s
                  /\ end_node' = e
                  /\ pc' = "ready"
               \/ /\ s = NULL
                  /\ start_node' \in Points
                  /\ end_node' \in Points
                  /\ pc' = "ready"
               \/ /\ s = NULL
                  /\ UNCHANGED <<start_node, end_node>>
                  /\ pc' = "fault"
    /\ UNCHANGED <<graph, m_MetricScale, node_to_road, nodeState, path,
                   open_list, distance, current_node>>

\* Mutant of AStarSearchBegin: the start node is pushed but not marked visited.
AStarSearchBeginUnmarked ==
    /\ pc = "ready"
    /\ current_node' = start_node
    /\ open_list' = Append(open_list, start_node)
    /\ query' = NoQuery
    /\ pc' = "loop"
    /\ UNCHANGED <<graph, m_MetricScale, node_to_road, nodeState, path,
                   start_node, end_node, distance>>

\* AStarSearch up to the loop: the start node is marked and pushed.
AStarSearchBegin ==
    /\ pc = "ready"
    /\ current_node' = start_node
    /\ visited' = [visited EXCEPT ![start_node] = TRUE]
    /\ open_list' = Append(open_list, start_node)
    /\ query' = NoQuery
    /\ pc' = "loop"
    /\ UNCHANGED <<graph, m_MetricScale, node_to_road, parent, h_value, g_value,
                   neighbors, path, start_node, end_node, distance>>

\* Mutant of OpenListEmpty: the path to the last node popped is built when
\* the search gives up.
OpenListEmptyBuildsPath ==
    /\ pc = "loop"
    /\ open_list = <<>>
    /\ path' = ConstructFinalPath(current_node).path_found
    /\ distance' = ConstructFinalPath(current_node).distance
    /\ pc' = "Exhausted"
    /\ UNCHANGED <<graph, m_MetricScale, node_to_road, nodeState,
                   open_list, start_node, end_node, current_node, query>>

\* while (!open_list.empty()) fails: AStarSearch returns with no path.
OpenListEmpty ==
    /\ pc = "loop"
    /\ open_list = <<>>
    /\ pc' = "Exhausted"
    /\ UNCHANGED <<graph, m_MetricScale, node_to_road, nodeState, path, planner>>

\* current_node = NextNode(): sort, take the back, pop it.
NextNode ==
    /\ pc = "loop"
    /\ open_list # <<>>
    /\ \E sorted \in SortResults(open_list) :
        /\ current_node' = Back(sorted)
        /\ open_list' = PopBack(sorted)
    /\ pc' = "popped"
    /\ UNCHANGED <<graph, m_MetricScale, node_to_road, nodeState, path,
                   start_node, end_node, distance, query>>

\* Mutant of GoalReached: the search also ends when the goal is on the open
\* list, whichever node was popped.
GoalReachedOnInsert ==
    /\ pc = "popped"
    /\ current_node = end_node \/ end_node \in Range(open_list)
    /\ path' = ConstructFinalPath(end_node).path_found
    /\ distance' = ConstructFinalPath(end_node).distance
    /\ pc' = "Found"
    /\ UNCHANGED <<graph, m_MetricScale, node_to_road, nodeState,
                   open_list, start_node, end_node, current_node, query>>

\* current_node == end_node: the path is built and AStarSearch returns.
GoalReached ==
    /\ pc = "popped"
    /\ current_node = end_node
    /\ path' = ConstructFinalPath(current_node).path_found
    /\ distance' = ConstructFinalPath(current_node).distance
    /\ pc' = "Found"
    /\ UNCHANGED <<graph, m_MetricScale, node_to_road, nodeState,
                   open_list, start_node, end_node, current_node, query>>

\* AddNeighbors(current_node), FindNeighbors included.
Expand ==
    /\ pc = "popped"
    /\ current_node # end_node
    /\ LET list == FindNeighbors(current_node)
           st == AddNeighbors(current_node, list)
       IN  /\ neighbors' = [neighbors EXCEPT ![current_node] = list]
           /\ node_to_road' = NodeToRoadAfterLookup(current_node)
           /\ parent' = st.parent
           /\ g_value' = st.g
           /\ h_value' = st.h
           /\ visited' = st.visited
           /\ open_list' = st.open
    /\ pc' = "loop"
    /\ UNCHANGED <<graph, m_MetricScale, path, start_node, end_node, distance,
                   current_node, query>>

Next ==
    \/ RouteModelCtor
    \/ RoutePlannerCtor
    \/ AStarSearchBegin
    \/ OpenListEmpty
    \/ NextNode
    \/ GoalReached
    \/ Expand

Spec == Init /\ [][Next]_vars

(* ------------- AStarSearch called again on the same planner ----------- *)

\* Mutant of AStarSearchAgain: the call starts from a reset node set.
AStarSearchAgainReset ==
    /\ pc \in {"Found", "Exhausted"}
    /\ current_node' = start_node
    /\ parent' = [p \in Points |-> NULL]
    /\ h_value' = [p \in Points |-> FloatMax]
    /\ g_value' = [p \in Points |-> 0]
    /\ visited' = [p \in Points |-> p = start_node]
    /\ open_list' = <<start_node>>
    /\ pc' = "loop"
    /\ UNCHANGED <<graph, m_MetricScale, node_to_road,
                   neighbors, path, start_node, end_node, distance, query>>

\* A further call of AStarSearch after one has returned: the same code up to
\* the loop, on the fields the call before left.  Nothing is cleared.
AStarSearchAgain ==
    /\ pc \in {"Found", "Exhausted"}
    /\ current_node' = start_node
    /\ visited' = [visited EXCEPT ![start_node] = TRUE]
    /\ open_list' = Append(open_list, start_node)
    /\ pc' = "loop"
    /\ UNCHANGED <<graph, m_MetricScale, node_to_road, parent, h_value, g_value,
                   neighbors, path, start_node, end_node, distance, query>>

RerunNext ==
    \/ Next
    \/ AStarSearchAgain

RerunSpec == Init /\ [][RerunNext]_vars

(* ------------------- notions the properties are stated in -------------- *)

Done == {"Found", "Exhausted"}

\* p occurs in the point sequence of a road that is not a footway.
OnRoad(p) == \E r \in RoadIdx : m_Roads[r].type # Footway /\ p \in Range(m_Ways[m_Roads[r].way])

\* Two points lie on a common road that is not a footway.
ShareRoad(p, q) ==
    \E r \in RoadIdx :
        /\ m_Roads[r].type # Footway
        /\ p \in Range(m_Ways[m_Roads[r].way])
        /\ q \in Range(m_Ways[m_Roads[r].way])

\* The points joined to the points of S by chains of non-footway roads
\* sharing points.
RECURSIVE Joined(_)
Joined(S) ==
    LET T == S \cup {q \in Points : \E p \in S : ShareRoad(p, q)}
    IN  IF T = S THEN S ELSE Joined(T)

Connected(p, q) == q \in Joined({p})

\* Exact squared Euclidean distance between two coordinate records.
SquaredXY(a, b) == (a.x - b.x) * (a.x - b.x) + (a.y - b.y) * (a.y - b.y)

\* Two points are the ends of a segment of a road that is not a footway.
Segment(p, q) ==
    \E r \in RoadIdx :
        /\ m_Roads[r].type # Footway
        /\ \E i \in 1 .. (Len(m_Ways[m_Roads[r].way]) - 1) :
              {m_Ways[m_Roads[r].way][i], m_Ways[m_Roads[r].way][i + 1]} = {p, q}

\* Length of the shortest route from the start to every point, over routes
\* of at most k segments (FloatMax: none).
RECURSIVE RouteLength(_, _)
RouteLength(from, k) ==
    IF k = 0 THEN [p \in Points |-> IF p = from THEN 0 ELSE FloatMax]
    ELSE LET prev == RouteLength(from, k - 1)
             via(p) == {prev[q] + Dist(q, p) : q \in {q \in Points : Segment(q, p) /\ prev[q] < FloatMax}}
         IN  [p \in Points |->
                 LET c == via(p) \cup {prev[p]}
                 IN  CHOOSE m \in c : \A n \in c : m <= n]

ShortestRoute(from, to) == RouteLength(from, NumPoints)[to]

\* The coordinates the constructor looked up, after the percent conversion.
StartQuery == [x |-> FromPercent(query[1]), y |-> FromPercent(query[2])]
EndQuery == [x |-> FromPercent(query[3]), y |-> FromPercent(query[4])]
Located == pc = "ready" /\ query # NoQuery

(* ------------------------------ claims --------------------------------- *)

\* C1: whenever the goal is joined to the start by a chain of non-footway
\* roads sharing points, a search that has ended has ended in Found, with a
\* non-empty path from the start node to the goal node.
C1_FoundWhenConnected ==
    (pc \in Done /\ Connected(start_node, end_node)) =>
        /\ pc = "Found"
        /\ path # <<>>
        /\ path[1] = start_node
        /\ path[Len(path)] = end_node

\* C2: when no chain of non-footway roads joins the goal to the start, the
\* search is never Found: it ends Exhausted with the open list empty, and
\* the model's path stays empty.
C2_ExhaustedWhenDisconnected ==
    (pc \in Done /\ ~Connected(start_node, end_node)) =>
        /\ pc = "Exhausted"
        /\ open_list = <<>>
        /\ path = <<>>

\* C2 witness: an exhausted search that expanded beyond its start node while
\* the goal lay on a road of another component.
C2_Witness ==
    /\ pc = "Exhausted"
    /\ ~Connected(start_node, end_node)
    /\ OnRoad(end_node)
    /\ \E p \in Points : p # start_node /\ visited[p]

\* What is left for the loop to do: twice the points not yet visited, once
\* the open list, and the half turn of a node popped but not yet handled.
LoopVariant ==
    2 * (2 * Cardinality({p \in Points : ~visited[p]}) + Len(open_list))
        + (IF pc = "popped" THEN 1 ELSE 0)

\* A step that stays in the loop lowers LoopVariant, and a step leaves the
\* loop in two ways only: Found on the goal popped, Exhausted on the open
\* list empty.
LoopStep ==
    pc \in {"loop", "popped"} =>
        /\ pc' \in {"loop", "popped"} => LoopVariant' < LoopVariant
        /\ pc' \notin {"loop", "popped"} =>
              \/ pc' = "Found" /\ pc = "popped" /\ current_node = end_node
              \/ pc' = "Exhausted" /\ pc = "loop" /\ open_list = <<>>

\* C3: the search loop always comes to an end: every turn of the loop
\* lowers LoopVariant, which never goes below 0, the sort of a non-empty
\* open list always has a result to pop, and the loop is left in two ways
\* only: Found, when the node popped is the goal, or Exhausted, when the
\* open list is empty.
C3_Terminates ==
    /\ [](LoopVariant >= 0)
    /\ []((pc = "loop" /\ open_list # <<>>) => SortResults(open_list) # {})
    /\ [][LoopStep]_vars

\* C3 witness: a search that came to its end after it had visited every
\* point of the map.
C3_Witness ==
    /\ pc \in Done
    /\ \A p \in Points : visited[p]

\* C4: the distance of a path found is the length of the shortest route
\* from the start to the goal along segments of non-footway roads.
C4_ShortestRoute ==
    pc = "Found" =>
        distance = ShortestRoute(start_node, end_node) * m_MetricScale

\* The three points and two ways of the concrete scenario.
ScenarioMap ==
    /\ m_Nodes = (0 :> [x |-> 0, y |-> 0] @@ 1 :> [x |-> 1, y |-> 0] @@ 2 :> [x |-> 1, y |-> 1])
    /\ m_Ways = (0 :> <<0, 1>> @@ 1 :> <<1, 2>>)
    /\ m_Roads[0] = [way |-> 0, type |-> Residential]
    /\ m_Roads[1].way = 1

\* C5: on the scenario map with both roads residential, the search from P0
\* to P2 ends in Found with path P0, P1, P2 and distance 2.0 before the
\* metric scale is applied.
C5_ScenarioResidential ==
    (/\ ScenarioMap
     /\ m_Roads[1].type = Residential
     /\ start_node = 0
     /\ end_node = 2
     /\ pc \in Done) =>
        /\ pc = "Found"
        /\ path = <<0, 1, 2>>
        /\ distance = 2 * Scale * m_MetricScale

\* C5 witness: that search has ended.
C5_Witness ==
    /\ ScenarioMap
    /\ m_Roads[1].type = Residential
    /\ start_node = 0
    /\ end_node = 2
    /\ pc \in Done
    /\ Len(path) = 3

\* C6 as stated: on the scenario map with W1 a footway, the search between
\* the nodes the planner takes for P0 and P2 ends Exhausted.
C6_Original ==
    (/\ ScenarioMap
     /\ m_Roads[1].type = Footway
     /\ start_node = FindClosestNode(0, 0)
     /\ end_node = FindClosestNode(1, 1)
     /\ pc \in Done) =>
        pc = "Exhausted"

\* C6 amended: on the scenario map with W1 a footway, P2 is never visited,
\* never on the open list and never an end of a search; the search between
\* the nodes the planner takes for P0 and P2 runs from P0 to P1 and ends in
\* Found with path P0, P1.
C6_ScenarioFootway ==
    (ScenarioMap /\ m_Roads[1].type = Footway) =>
        /\ ~visited[2]
        /\ 2 \notin Range(open_list)
        /\ start_node # 2 /\ end_node # 2
        /\ (/\ pc \in Done
            /\ start_node = FindClosestNode(0, 0)
            /\ end_node = FindClosestNode(1, 1)) =>
                /\ start_node = 0
                /\ end_node = 1
                /\ pc = "Found"
                /\ path = <<0, 1>>

\* C6 witness: that search has ended.
C6_Witness ==
    /\ ScenarioMap
    /\ m_Roads[1].type = Footway
    /\ pc \in Done
    /\ start_node = FindClosestNode(0, 0)
    /\ end_node = FindClosestNode(1, 1)

\* C7: a search whose start node is its goal node is Found at the first
\* pop, expands nothing, and its path is that one point, at distance 0.
C7_StartIsGoal ==
    (start_node = end_node /\ pc \in {"popped", "Found", "Exhausted"}) =>
        /\ current_node = end_node
        /\ pc # "Exhausted"
        /\ \A p \in Points : neighbors[p] = <<>> /\ (visited[p] <=> p = start_node)
        /\ open_list = <<>>
        /\ pc = "Found" => path = <<start_node>> /\ distance = 0

\* C7 witness: such a search, ended, on a start node that has neighbors.
C7_Witness ==
    /\ pc = "Found"
    /\ start_node = end_node
    /\ \E p \in Points : Dist(start_node, p) # 0 /\ ShareRoad(start_node, p)

\* A point of the map lies on a road that is not a footway.
SomeRoutePoint == \E p \in Points : OnRoad(p)

\* node is a point on a non-footway road, and none of them is nearer to q.
NearestOnRoad(node, q) ==
    /\ node \in Points
    /\ OnRoad(node)
    /\ \A p \in Points :
          OnRoad(p) => SquaredXY(q, m_Nodes[node]) <= SquaredXY(q, m_Nodes[p])

\* C8: on a map with a point on a non-footway road, the node located for a
\* coordinate lies on a non-footway road and no point on a non-footway road
\* is nearer to the coordinate.
C8_ClosestOnRoad ==
    (Located /\ SomeRoutePoint) =>
        /\ NearestOnRoad(start_node, StartQuery)
        /\ NearestOnRoad(end_node, EndQuery)

\* C8 witness: a node located while a point that lies on a footway only was
\* strictly nearer to the coordinate.
C8_Witness ==
    /\ Located
    /\ SomeRoutePoint
    /\ \E p \in Points :
          /\ ~OnRoad(p)
          /\ \E r \in RoadIdx : p \in Range(m_Ways[m_Roads[r].way])
          /\ SquaredXY(StartQuery, m_Nodes[p]) < SquaredXY(StartQuery, m_Nodes[start_node])

\* C9 as stated: the node located for the coordinate of a point of the
\* table is that point.
C9_Original ==
    Located =>
        \A p \in Points :
            /\ m_Nodes[p] = StartQuery => start_node = p
            /\ m_Nodes[p] = EndQuery => end_node = p

\* node is the answer for q, the coordinate of the on-road point p: it is
\* on a road, at q, at distance 0, and it is p when p is alone at q.
ExactOnRoad(node, q, p) ==
    /\ node \in Points
    /\ OnRoad(node)
    /\ m_Nodes[node] = q
    /\ distanceXY(q, m_Nodes[node]) = 0
    /\ (\A o \in Points : (OnRoad(o) /\ m_Nodes[o] = q) => o = p) => node = p

\* C9 amended: the node located for the coordinate of a point that lies on
\* a non-footway road is a point on a non-footway road at that coordinate,
\* at distance 0, and it is that very point when no other point on a
\* non-footway road has the coordinate.
C9_ExactOnRoad ==
    Located =>
        \A p \in Points :
            /\ (OnRoad(p) /\ m_Nodes[p] = StartQuery) => ExactOnRoad(start_node, StartQuery, p)
            /\ (OnRoad(p) /\ m_Nodes[p] = EndQuery) => ExactOnRoad(end_node, EndQuery, p)

\* C9 witness: a node located at its own coordinate, on a map with another
\* on-road point elsewhere that the scan meets first.
C9_Witness ==
    /\ Located
    /\ OnRoad(start_node)
    /\ m_Nodes[start_node] = StartQuery
    /\ m_Ways[0] # <<>>
    /\ m_Nodes[m_Ways[0][1]] # StartQuery

\* C10: once the map is built, road r is in the entry of point p exactly
\* when r is not a footway and p is in the point sequence of r's way; the
\* keys are points and the entries hold roads.
C10_NodeToRoad ==
    pc # "main" =>
        /\ DOMAIN node_to_road \subseteq Points
        /\ \A p \in DOMAIN node_to_road : Range(node_to_road[p]) \subseteq RoadIdx
        /\ \A p \in Points : \A r \in RoadIdx :
              (p \in DOMAIN node_to_road /\ r \in Range(node_to_road[p]))
                  <=> (m_Roads[r].type # Footway /\ p \in Range(m_Ways[m_Roads[r].way]))

\* C10 witness: a map built with a point that has two entries and a point
\* that lies on a footway only and has no entry.
C10_Witness ==
    /\ pc = "built"
    /\ \E p \in DOMAIN node_to_road : Len(node_to_road[p]) >= 2
    /\ \E p \in Points :
          /\ p \notin DOMAIN node_to_road
          /\ \E r \in RoadIdx : p \in Range(m_Ways[m_Roads[r].way])

\* The running total of ConstructFinalPath after k nodes of the parent chain
\* of the goal, before the metric scale.
RunningTotal(k) == WalkParents([path_found |-> <<>>, distance |-> 0], end_node, k).distance

\* C11: for a search that ended in Found the distance is >= 0, the running
\* total never falls from one hop of the parent chain to the next, and the
\* distance is 0 only when the start node is the goal node and the path is
\* that single point.
C11_DistanceNonNegative ==
    pc = "Found" =>
        /\ distance >= 0
        /\ RunningTotal(0) = 0
        /\ \A k \in 0 .. NumPoints : RunningTotal(k) <= RunningTotal(k + 1)
        /\ distance = RunningTotal(NumPoints + 1) * m_MetricScale
        /\ distance = 0 => (start_node = end_node /\ Len(path) = 1)

\* C11 witness: a path found over two hops, of distance above 0.
C11_Witness ==
    /\ pc = "Found"
    /\ start_node # end_node
    /\ Len(path) = 3
    /\ distance > 0

\* C12: the path of a search that ended in Found is the parent chain of the
\* goal reversed: it starts at the start node, which has no parent, ends at
\* the goal node, and each of its nodes is the parent of the next.
C12_PathIsParentChain ==
    pc = "Found" =>
        /\ path # <<>>
        /\ path[1] = start_node
        /\ parent[path[1]] = NULL
        /\ path[Len(path)] = end_node
        /\ \A i \in 1 .. (Len(path) - 1) : parent[path[i + 1]] = path[i]

\* C12 witness: a path found whose goal was discovered from a node other
\* than the start.
C12_Witness ==
    /\ pc = "Found"
    /\ Len(path) >= 3
    /\ parent[end_node] # start_node
    /\ parent[end_node] # NULL

\* The road map built when road skip is left out of the loop over Roads().
RECURSIVE IndexRoadsSkipping(_, _, _)
IndexRoadsSkipping(map, r, skip) ==
    IF r \notin RoadIdx THEN map
    ELSE IndexRoadsSkipping(IF r = skip THEN map ELSE IndexRoad(map, r), r + 1, skip)

\* The scan of FindClosestNode when road skip is left out of the loop.
RECURSIVE ScanRoadsSkipping(_, _, _, _)
ScanRoadsSkipping(acc, input, r, skip) ==
    IF r \notin RoadIdx THEN acc
    ELSE ScanRoadsSkipping(IF r = skip THEN acc ELSE ScanRoad(acc, input, r),
                           input, r + 1, skip)

ScanStart == [min_dist |-> FloatMax, closest_idx |-> NULL]

\* The roads whose way has no point.
EmptyRoads == {r \in RoadIdx : WayNodes(r) = <<>>}

\* C15: a road on a way with no point is passed over without an error: the
\* map built, and the node located for a coordinate, are what they are with
\* that road left out; the road is in no entry of the map, so no search
\* reaches it, and its way gives FindNeighbor no neighbor; the only fault,
\* the location on a map without any point on a non-footway road, is the
\* fault of the map with the road left out.
C15_EmptyWay ==
    \A r \in EmptyRoads :
        /\ pc = "built" => node_to_road = IndexRoadsSkipping(EmptyMap, 0, r)
        /\ pc # "main" => \A p \in DOMAIN node_to_road : r \notin Range(node_to_road[p])
        /\ Located =>
              /\ ScanRoadsSkipping(ScanStart, StartQuery, 0, r) = ScanRoads(ScanStart, StartQuery, 0)
              /\ ScanRoadsSkipping(ScanStart, EndQuery, 0, r) = ScanRoads(ScanStart, EndQuery, 0)
              /\ SomeRoutePoint =>
                    /\ start_node = ScanRoadsSkipping(ScanStart, StartQuery, 0, r).closest_idx
                    /\ end_node = ScanRoadsSkipping(ScanStart, EndQuery, 0, r).closest_idx
        /\ \A p \in Points : FindNeighbor(p, WayNodes(r)) = NULL
        /\ pc = "fault" => ScanRoadsSkipping(ScanStart, StartQuery, 0, r).closest_idx = NULL

\* C15 witness: a search that found a path over two hops on a map whose
\* second road is a non-footway road on a way with no point.
C15_Witness ==
    /\ pc = "Found"
    /\ Len(path) = 3
    /\ m_Ways[1] = <<>>
    /\ m_Roads[1].type = Residential

\* The positions of way w that hold a point FindNeighbor may return for c.
Candidates(c, w) == {i \in 1 .. Len(w) : Dist(c, w[i]) # 0 /\ ~visited[w[i]]}

\* The point of way w nearest to c among the candidates, the first in way
\* order of those equally near; NULL without a candidate.
NearestOnWay(c, w) ==
    IF Candidates(c, w) = {} THEN NULL
    ELSE w[CHOOSE i \in Candidates(c, w) :
              \A j \in Candidates(c, w) :
                  \/ Dist(c, w[i]) < Dist(c, w[j])
                  \/ Dist(c, w[i]) = Dist(c, w[j]) /\ i <= j]

NotNull(x) == x # NULL

\* What the road entries of c contribute, in entry order.
Contributions(c) ==
    SelectSeq([i \in 1 .. Len(RoadsAt(c)) |-> NearestOnWay(c, WayNodes(RoadsAt(c)[i]))],
              NotNull)

\* The step of the search that calls AddNeighbors, and FindNeighbors in it.
ExpandStep == pc = "popped" /\ pc' = "loop"

C17_Step ==
    ExpandStep =>
        /\ \A i \in DOMAIN RoadsAt(current_node) :
              /\ m_Roads[RoadsAt(current_node)[i]].type # Footway
              /\ current_node \in Range(WayNodes(RoadsAt(current_node)[i]))
        /\ neighbors'[current_node] = neighbors[current_node] \o Contributions(current_node)
        /\ Len(neighbors'[current_node]) <= Len(neighbors[current_node]) + Len(RoadsAt(current_node))
        /\ current_node \notin Range(Contributions(current_node))
        /\ \A n \in Range(Contributions(current_node)) :
              Dist(current_node, n) # 0 /\ ~visited[n]
        /\ \A p \in Points \ {current_node} : neighbors'[p] = neighbors[p]

\* C17: FindNeighbors appends to the neighbor list of the node, for each of
\* its road entries (all of them non-footway roads through the node) in
\* entry order, at most one node: the point of the road's way nearest to the
\* node among the points at non-zero distance and not visited, the first in
\* way order of those equally near, and nothing when there is none; the node
\* itself is never appended.
C17_FindNeighbors == [][C17_Step]_vars

\* C17 witness: a node expanded on a way that holds two unvisited points
\* equally near to it; the first in way order became its one neighbor.
C17_Witness ==
    /\ pc = "loop"
    /\ current_node # NULL
    /\ \E r \in RoadIdx : \E i, j \in DOMAIN WayNodes(r) :
          /\ Routable(r)
          /\ i < j
          /\ WayNodes(r)[i] # WayNodes(r)[j]
          /\ Dist(current_node, WayNodes(r)[i]) = Dist(current_node, WayNodes(r)[j])
          /\ Dist(current_node, WayNodes(r)[i]) # 0
          /\ neighbors[current_node] = <<WayNodes(r)[i]>>
          /\ parent[WayNodes(r)[i]] = current_node
          /\ ~visited[WayNodes(r)[j]]

\* No element of the sequence occurs twice.
Distinct(s) == \A i, j \in DOMAIN s : i # j => s[i] # s[j]

\* C18 as stated: every neighbor list holds pairwise distinct nodes.
C18_Original == \A p \in Points : Distinct(neighbors[p])

\* The points of the way of road r that FindNeighbor may return for c.
CandidatePoints(c, r) == {WayNodes(r)[i] : i \in Candidates(c, WayNodes(r))}

C18_Step ==
    ExpandStep =>
        /\ neighbors[current_node] = <<>>
        /\ Len(neighbors'[current_node]) <= Len(RoadsAt(current_node))
        /\ \A n \in Points :
              Cardinality({k \in DOMAIN neighbors'[current_node] : neighbors'[current_node][k] = n})
                  = Cardinality({i \in DOMAIN RoadsAt(current_node) :
                        NearestOnWay(current_node, WayNodes(RoadsAt(current_node)[i])) = n})
        /\ (\A i, j \in DOMAIN RoadsAt(current_node) :
                i # j => CandidatePoints(current_node, RoadsAt(current_node)[i])
                            \cap CandidatePoints(current_node, RoadsAt(current_node)[j]) = {})
              => Distinct(neighbors'[current_node])

\* C18 amended: the list one FindNeighbors call leaves on a node whose list
\* was empty has at most one element for each road entry of the node, and a
\* node is in it once for every entry whose nearest candidate it is: the
\* list is pairwise distinct when no two entries of the node share a
\* candidate point.
C18_OnePerEntry == [][C18_Step]_vars

\* C18 witness: a node expanded with two road entries that share no
\* candidate point and gave it two different neighbors.
C18_Witness ==
    /\ pc = "loop"
    /\ current_node # NULL
    /\ Len(neighbors[current_node]) = 2
    /\ neighbors[current_node][1] # neighbors[current_node][2]
    /\ Len(RoadsAt(current_node)) = 2
    /\ RoadsAt(current_node)[1] # RoadsAt(current_node)[2]

\* The neighbors of the list that are not visited when AddNeighbors starts.
Fresh(list) == {n \in Range(list) : ~visited[n]}

C19_Step ==
    ExpandStep =>
        LET list == neighbors'[current_node]
        IN  /\ \A n \in Fresh(list) :
                  /\ parent'[n] = current_node
                  /\ g_value'[n] = g_value[current_node] + Dist(current_node, n)
                  /\ h_value'[n] = Dist(n, end_node)
                  /\ visited'[n]
            /\ \A n \in Points \ Fresh(list) :
                  /\ parent'[n] = parent[n]
                  /\ g_value'[n] = g_value[n]
                  /\ h_value'[n] = h_value[n]
                  /\ visited'[n] = visited[n]
            /\ Len(open_list') = Len(open_list) + Cardinality(Fresh(list))
            /\ SubSeq(open_list', 1, Len(open_list)) = open_list
            /\ Range(SubSeq(open_list', Len(open_list) + 1, Len(open_list'))) = Fresh(list)

\* C19: AddNeighbors(current) gives every neighbor of the list that is not
\* visited at that moment parent = current, g = current.g + distance(current,
\* neighbor), h = distance(neighbor, goal) and visited = true, and appends
\* it to the open list; the open list grows by the number of distinct such
\* neighbors, and no other node is changed.
C19_AddNeighbors == [][C19_Step]_vars

\* C19 witness: AddNeighbors has handled a list that holds the same
\* neighbor twice, and the open list holds that neighbor once.
C19_Witness ==
    /\ pc = "loop"
    /\ current_node # NULL
    /\ Len(neighbors[current_node]) = 2
    /\ neighbors[current_node][1] = neighbors[current_node][2]
    /\ parent[neighbors[current_node][1]] = current_node
    /\ Cardinality({k \in DOMAIN open_list : open_list[k] = neighbors[current_node][1]}) = 1

C20_Step ==
    /\ \A p \in Points :
          visited[p] =>
              /\ visited'[p]
              /\ g_value'[p] = g_value[p]
              /\ h_value'[p] = h_value[p]
              /\ parent'[p] = parent[p]
    /\ ExpandStep =>
          \A p \in Points :
              (g_value'[p] # g_value[p] \/ h_value'[p] # h_value[p] \/ parent'[p] # parent[p])
                  => (~visited[p] /\ p \in Range(neighbors'[current_node]))

C16_Step ==
    /\ \A p \in Points : visited[p] => visited'[p]
    /\ (pc \in Done /\ pc' = "loop") =>
          /\ \A p \in Points \ {start_node} : visited'[p] = visited[p]
          /\ parent' = parent
          /\ g_value' = g_value
          /\ h_value' = h_value
          /\ neighbors' = neighbors
          /\ SubSeq(open_list', 1, Len(open_list)) = open_list
    /\ ExpandStep =>
          \A p \in Points :
              visited[p] =>
                  /\ parent'[p] = parent[p]
                  /\ g_value'[p] = g_value[p]
                  /\ h_value'[p] = h_value[p]

\* C16: with AStarSearch called again on the same planner and model, a node
\* once visited is visited in every later state; the call clears nothing:
\* it starts on the visited marks, parents, g, h, neighbor lists and open
\* list the call before left, and no expansion of the later search changes
\* the parent, g or h of a node visited before.
C16_StateNotScoped == [][C16_Step]_vars

\* C16 witness: a later search has ended Exhausted on a model whose path is
\* the one the first search found: its goal was still marked visited.
C16_Witness ==
    /\ pc = "Exhausted"
    /\ path # <<>>
    /\ start_node # end_node
    /\ visited[end_node]

\* How often node n is on the sequence.
Count(list, n) == Cardinality({k \in DOMAIN list : list[k] = n})

\* The points marked visited.
Visited == {p \in Points : visited[p]}

\* The steps of the search: the seeding before the loop and the pop.
BeginStep == pc = "ready" /\ pc' = "loop"
PopStep == pc = "loop" /\ pc' = "popped"

C21_Step ==
    PopStep =>
        /\ open_list # <<>>
        /\ current_node' \in Range(open_list)
        /\ \A n \in Range(open_list) : F(current_node') <= F(n)
        /\ Len(open_list') = Len(open_list) - 1
        /\ \A n \in Points :
              Count(open_list', n) = Count(open_list, n) - (IF n = current_node' THEN 1 ELSE 0)
        /\ UNCHANGED <<parent, h_value, g_value, visited, neighbors>>

\* C21: NextNode, called on a non-empty open list, returns a member whose
\* f = g + h no member is below, takes exactly that one member off the
\* list, keeps all the other members, and changes no node's g, h, visited
\* or parent.
C21_NextNode == [][C21_Step]_vars

\* C21 witness: a node was popped while the open list held a node of
\* higher f, which stayed on it.
C21_Witness ==
    /\ pc = "popped"
    /\ open_list # <<>>
    /\ \E n \in Range(open_list) : F(n) > F(current_node)

C22_Step ==
    /\ BeginStep =>
          /\ open_list' = <<start_node>>
          /\ g_value'[start_node] = 0
          /\ Visited' = {start_node}
    /\ PopStep => \A n \in Range(open_list) : F(current_node') <= F(n)
    /\ pc = "loop" => pc' \in {"popped", "Exhausted"}
    /\ pc' = "Found" => (pc = "popped" /\ current_node = end_node)
    /\ pc = "popped" =>
          IF current_node = end_node
          THEN pc' = "Found"
          ELSE /\ pc' = "loop"
               /\ neighbors[current_node] = <<>>
               /\ neighbors'[current_node] = FindNeighbors(current_node)
               /\ current_node' = current_node
               /\ current_node \notin Range(open_list')

\* C22: AStarSearch starts the loop with the start node alone on the open
\* list, its g 0 and it the one visited node; each turn pops a node of
\* lowest f; the search is Found only by a step from a popped node that is
\* the goal, never while the goal is merely on the open list; a popped node
\* that is not the goal is expanded, for the first time, before the next
\* pop, and is not put back on the list.
C22_SearchLoop ==
    /\ [](pc = "Found" => (current_node = end_node /\ end_node \notin Range(open_list)))
    /\ [][C22_Step]_vars

\* C22 witness: the goal is on the open list, put there by an expansion,
\* and the search is still in its loop.
C22_Witness ==
    /\ pc = "loop"
    /\ start_node # end_node
    /\ end_node \in Range(open_list)
    /\ parent[end_node] # NULL

\* The nodes a step puts on the open list.
Inserted == {n \in Points : Count(open_list', n) > Count(open_list, n)}

C23_Step ==
    /\ \A p \in Points : visited[p] => visited'[p]
    /\ \A p \in Points : (visited'[p] /\ ~visited[p]) => p \in Inserted
    /\ \A p \in Inserted : visited'[p]

\* C23: a node is visited exactly when it has been put on the open list
\* earlier in the run: before the run no node is visited and the list is
\* empty, a step marks a node visited exactly when it puts it on the list
\* (for a node not yet visited), a mark is never taken back, and so every
\* member of the open list is visited.
C23_VisitedIffInserted ==
    /\ [](pc \in {"main", "built", "ready"} => (Visited = {} /\ open_list = <<>>))
    /\ [](Range(open_list) \subseteq Visited)
    /\ [][C23_Step]_vars

\* C23 witness: the open list holds a node while another node than the
\* start is visited and off the list, popped before.
C23_Witness ==
    /\ pc = "loop"
    /\ open_list # <<>>
    /\ \E p \in Visited : p # start_node /\ p \notin Range(open_list)

\* The nodes met from node p by following parent k times, p included.
RECURSIVE Ancestors(_, _)
Ancestors(p, k) ==
    IF p = NULL \/ k = 0 THEN <<>>
    ELSE <<p>> \o Ancestors(parent[p], k - 1)

Searching == pc \in {"loop", "popped", "Found", "Exhausted"}

\* C24: during and after a run the parents of the visited nodes form a
\* tree rooted at the start node: the start node has no parent, every other
\* visited node has a visited parent, and the chain of parents from a
\* visited node ends at the start node after fewer steps than there are
\* points, without meeting a node twice.
C24_ParentTree ==
    Searching =>
        /\ parent[start_node] = NULL
        /\ \A p \in Visited \ {start_node} : parent[p] \in Visited
        /\ \A p \in Visited :
              LET chain == Ancestors(p, NumPoints + 1)
              IN  /\ Len(chain) <= NumPoints
                  /\ chain[Len(chain)] = start_node
                  /\ Distinct(chain)
        /\ \A p \in Points \ Visited : parent[p] = NULL

\* C24 witness: a visited node whose parent is neither null nor the start.
C24_Witness ==
    /\ Searching
    /\ \E p \in Visited : parent[p] # NULL /\ parent[p] # start_node

C25_Step ==
    /\ PopStep =>
          /\ Len(open_list') = Len(open_list) - 1
          /\ Inserted = {}
    /\ \A n \in Inserted :
          /\ ~visited[n]
          /\ visited'[n]
          /\ Count(open_list', n) = 1
    /\ Inserted # {} => (BeginStep \/ ExpandStep)
    /\ ExpandStep => \A n \in Points : Count(open_list', n) >= Count(open_list, n)

\* C25: a pop takes exactly one node off the open list and puts none on
\* it; the nodes a step puts on the list were not visited before the step
\* and are visited after it, each put on once; so the list never holds a
\* node twice, its members are visited nodes, and the nodes put on the list
\* in a run, and so the pops, are never more than the points.
C25_InsertedOnce ==
    /\ [](Distinct(open_list))
    /\ [](Len(open_list) <= Cardinality(Visited) /\ Cardinality(Visited) <= NumPoints)
    /\ [](pc \in {"popped", "Found"} => current_node \in Visited \ Range(open_list))
    /\ [][C25_Step]_vars

\* C25 witness: the open list holds two nodes.
C25_Witness ==
    /\ pc = "loop"
    /\ Len(open_list) = 2
    /\ open_list[1] # open_list[2]

C27_HopsOnRoads ==
    pc = "Found" =>
        \A i \in 1 .. (Len(path) - 1) :
            /\ ShareRoad(path[i], path[i + 1])
            /\ m_Nodes[path[i]] # m_Nodes[path[i + 1]]

\* C27 witness: a path found over two hops on a map where a footway joins
\* the start to the goal directly.
C27_Witness ==
    /\ pc = "Found"
    /\ Len(path) = 3
    /\ \E r \in RoadIdx :
          /\ m_Roads[r].type = Footway
          /\ {start_node, end_node} \subseteq Range(m_Ways[m_Roads[r].way])

\* No two points of the table have the same coordinates.
DistinctCoordinates == \A p, q \in Points : p # q => m_Nodes[p] # m_Nodes[q]

C29_NoNeighborAtSameCoordinates ==
    \A p \in Points : \A n \in Range(neighbors[p]) :
        /\ m_Nodes[n] # m_Nodes[p]
        /\ Dist(p, n) # 0
        /\ ShareRoad(p, n)

\* C29 witness: a node has for neighbor a point whose coordinates are also
\* those of another point of the same road, one that the neighbor, had it
\* been expanded, could not take.
C29_Witness ==
    \E p \in Points : \E n \in Range(neighbors[p]) :
        \E q \in Points \ {n, p} : \E r \in RoadIdx :
            /\ Routable(r)
            /\ {p, n, q} \subseteq Range(WayNodes(r))
            /\ m_Nodes[q] = m_Nodes[n]

C30_Step ==
    /\ pc' # "Found" => (path' = path /\ distance' = distance)
    /\ pc' = "Exhausted" => (pc = "loop" /\ open_list = <<>>)

\* C30: a search that ends Exhausted has not called ConstructFinalPath: no
\* step but the one into Found writes path or distance, so the distance is
\* still its initial 0 and the model's path is still empty; a search found
\* with the start for goal has distance 0 too.
C30_ExhaustedKeepsDistance ==
    /\ [](pc = "Exhausted" => (distance = 0 /\ path = <<>>))
    /\ []((pc = "Found" /\ start_node = end_node) => distance = 0)
    /\ [][C30_Step]_vars

\* C30 witness: a search ended Exhausted after it had gone over a hop of
\* non-zero length; its distance is 0.
C30_Witness ==
    /\ pc = "Exhausted"
    /\ distance = 0
    /\ \E p \in Visited : g_value[p] > 0

====
